---- MODULE Spec2Model ----
(***************************************************************************)
(* Model of src/app/server.js: the TimeSeriesCache class (a Map of         *)
(* timestamped entries with lazy expiry and a setInterval refresh          *)
(* callback), the cache-aside method fetchData, and the /timeseries        *)
(* request handler that inlines the same get / fetch / set sequence.       *)
(*                                                                         *)
(* JavaScript runs each callback to its first await without interleaving,  *)
(* so one action is one such run: the part of an async function before     *)
(* its await, or the continuation after the awaited promise settles.       *)
(***************************************************************************)
EXTENDS Integers, Sequences, FiniteSets, Bags, TLC

(* ---------------------------------------------------------------------- *)
(* Program constants and model bounds                                      *)
(* ---------------------------------------------------------------------- *)

\* constructor default: entries older than this many ms are expired
expirationDuration == 600000

\* constructor default: period of the setInterval refresh callback, in ms
refreshInterval == 60000

\* number of clock advances explored
MaxAdvances == 1

\* concurrent callers (HTTP clients, users of the class); each has at most
\* one call outstanding, so at most this many fetches are awaited at once
Callers == {"a", "b"}

\* amounts by which Date.now() moves between two callbacks: exactly the
\* expiration age, and one millisecond past it (both at least one refresh
\* period, so the timer is due after either)
Steps == {expirationDuration, expirationDuration + 1}

\* cache keys used by callers
Keys == {"k1", "k2"}

\* JavaScript null, the value get returns when it has nothing valid
Null == "null"

\* payloads a loader given to fetchData, or a caller of set, may supply;
\* "" is a falsy JavaScript value, "D1" a truthy one
Data == {"", "D1"}

\* payloads fetchDataFromAPI resolves with: always an array, hence truthy
ApiData == {"D1"}

\* mutant of Truthy: the test is for a value being there (!== null)
TruthyPresence(v) == v # Null

\* JavaScript truthiness of a value used as an if-condition
Truthy(v) == v \notin {Null, ""}

\* longest symbol or period of a query, in characters
MaxLen == 2

\* characters of a query parameter: a letter and the dash
Chars == {"A", "-"}

\* strings, as sequences of characters, of 1 to MaxLen characters
ParamStrs == UNION {[1..n -> Chars] : n \in 1..MaxLen}

\* start and end values of the queries compared
RangeStrs == {<<"A">>, <<"-">>}

\* the query parameters the handler reads
ParamNames == {"symbol", "period", "start", "end"}

\* req.query of the requests that pass the handler's parameter test
Queries ==
    [symbol : ParamStrs, period : ParamStrs, start : RangeStrs, end : RangeStrs]

\* a parameter as a request carries it: absent or empty (<<>>), or given
OptStrs == {<<>>, <<"A">>}

\* req.query of any incoming request
Requests == [symbol : OptStrs, period : OptStrs, start : OptStrs, end : OptStrs]

\* !symbol || !period || !start || !end
Missing(q) == \E p \in ParamNames : q[p] = <<>>

\* the requests the handler answers with 400
RejectedRequests == {q \in Requests : Missing(q)}

\* `${symbol}-${period}-${start}-${end}`
cacheKey(q) ==
    q.symbol \o <<"-">> \o q.period \o <<"-">> \o q.start \o <<"-">> \o q.end

VARIABLES
    cache,        \* this.cache: the Map, as the sequence of its entries in insertion order
    now,          \* Date.now()
    advances,     \* how many times the clock has advanced
    inflight,     \* bag of pending awaits of foreground fetches: [kind, key]
    nextRefresh,  \* earliest time the setInterval callback runs next
    alive,        \* FALSE once the process has exited
    wrote,        \* per key, data and time of the last completed set (history)
    last,         \* what the last step did and returned (history)
    derived       \* two queries and the cache keys the handler derives for them

vars == <<cache, now, advances, inflight, nextRefresh, alive, wrote, last, derived>>

(* ---------------------------------------------------------------------- *)
(* Map, in insertion order                                                 *)
(* ---------------------------------------------------------------------- *)

\* position of key k in the Map, 0 when it has none
IndexOf(c, k) ==
    IF \E i \in 1..Len(c) : c[i].key = k
    THEN CHOOSE i \in 1..Len(c) : c[i].key = k
    ELSE 0

MapHas(c, k) == IndexOf(c, k) # 0

\* Map.prototype.get: the entry, defined only when MapHas(c, k)
MapGet(c, k) == c[IndexOf(c, k)]

\* Map.prototype.set: replaces in place, or appends a new key
MapSet(c, k, e) ==
    IF MapHas(c, k)
    THEN [c EXCEPT ![IndexOf(c, k)] = e]
    ELSE Append(c, e)

\* Map.prototype.delete
MapDelete(c, k) == SelectSeq(c, LAMBDA e : e.key # k)

(* ---------------------------------------------------------------------- *)
(* TimeSeriesCache methods                                                 *)
(* ---------------------------------------------------------------------- *)

\* mutant of isExpired: the boundary age counts as expired
isExpiredAtBoundary(entry, t) == t - entry.timestamp >= expirationDuration

isExpired(entry, t) == t - entry.timestamp > expirationDuration

\* mutant of set: an existing entry is kept (first write wins)
setKeepExisting(c, k, d, t) ==
    IF MapHas(c, k) THEN c
    ELSE Append(c, [key |-> k, data |-> d, timestamp |-> t])

set(c, k, d, t) == MapSet(c, k, [key |-> k, data |-> d, timestamp |-> t])

\* mutant of get: the expiry test is dropped
getIgnoringExpiry(c, k, t) ==
    IF MapHas(c, k)
    THEN [value |-> MapGet(c, k).data, cache |-> c]
    ELSE [value |-> Null, cache |-> MapDelete(c, k)]

\* mutant of get: a read consumes the entry
getConsuming(c, k, t) ==
    IF MapHas(c, k) /\ ~isExpired(MapGet(c, k), t)
    THEN [value |-> MapGet(c, k).data, cache |-> MapDelete(c, k)]
    ELSE [value |-> Null, cache |-> MapDelete(c, k)]

\* mutant of get: a read restamps the entry it returns (sliding expiration)
getTouching(c, k, t) ==
    IF MapHas(c, k) /\ ~isExpired(MapGet(c, k), t)
    THEN [value |-> MapGet(c, k).data,
          cache |-> MapSet(c, k, [MapGet(c, k) EXCEPT !.timestamp = t])]
    ELSE [value |-> Null, cache |-> MapDelete(c, k)]

\* get: the value returned and the Map it leaves
get(c, k, t) ==
    IF MapHas(c, k) /\ ~isExpired(MapGet(c, k), t)
    THEN [value |-> MapGet(c, k).data, cache |-> c]
    ELSE [value |-> Null, cache |-> MapDelete(c, k)]

\* outcome of an awaited fetch whose promise rejected
Rejected == "rejected"

\* what an awaited fetchDataFromAPI can settle with
Outcomes == ApiData \cup {Rejected}

\* fetchData up to its first return or await: done when it returned the
\* cached value, otherwise fetchFunction() has been called and is awaited
fetchDataCall(c, k, t) ==
    LET cachedData == get(c, k, t) IN
    [done |-> Truthy(cachedData.value), value |-> cachedData.value,
     cache |-> cachedData.cache]

\* fetchData from its await on, the fetch having settled with o: it stores and
\* returns the data, or lets the rejection through to its caller
fetchDataResume(c, k, o, t) ==
    IF o = Rejected
    THEN [threw |-> TRUE, value |-> "error", cache |-> c]
    ELSE [threw |-> FALSE, value |-> o, cache |-> set(c, k, o, t)]

\* mutant of handlerCall: a hit is an entry that get returned, whatever its
\* payload
handlerCallPresence(c, k, t) ==
    LET cachedData == get(c, k, t) IN
    [done |-> cachedData.value # Null, status |-> "200",
     body |-> [data |-> cachedData.value], cache |-> cachedData.cache]

\* the handler's try block up to its first response or await, k being the
\* key derived from the request: done when it answered with the cached value
\* (in the data field of the body, next to the symbol and period of the
\* request), otherwise fetchDataFromAPI has been called and is awaited
handlerCall(c, k, t) ==
    LET cachedData == get(c, k, t) IN
    [done |-> Truthy(cachedData.value), status |-> "200",
     body |-> [data |-> cachedData.value], cache |-> cachedData.cache]

\* the handler from its await on, the fetch having settled with o: it stores
\* the data and answers with it, or the catch block answers 500
handlerResume(c, k, o, t) ==
    IF o = Rejected
    THEN [status |-> "500", body |-> [error |-> "error"], cache |-> c]
    ELSE [status |-> "200", body |-> [data |-> o], cache |-> set(c, k, o, t)]

\* keys whose entry is not expired at time t
ValidKeys(c, t) == {c[i].key : i \in {j \in 1..Len(c) : ~isExpired(c[j], t)}}

\* position of the first entry, in iteration order, that is not expired
FirstValid(c, t) ==
    IF \E i \in 1..Len(c) : ~isExpired(c[i], t)
    THEN CHOOSE i \in 1..Len(c) :
            /\ ~isExpired(c[i], t)
            /\ \A j \in 1..(i - 1) : isExpired(c[j], t)
    ELSE 0

\* mutant of refreshPass: a refresh that fails drops the entry it was refreshing
refreshPassEvicting(c, t) ==
    LET i == FirstValid(c, t) IN
    IF i = 0
    THEN [outcome |-> "completed", tried |-> {}, cache |-> c]
    ELSE [outcome |-> "rejected", tried |-> {c[i].key},
          cache |-> MapDelete(c, c[i].key)]

\* mutant of refreshPass: the expiry test of the loop is dropped, the first
\* entry is refreshed whatever its age
refreshPassAnyEntry(c, t) ==
    IF Len(c) = 0
    THEN [outcome |-> "completed", tried |-> {}, cache |-> c]
    ELSE [outcome |-> "rejected", tried |-> {c[1].key}, cache |-> c]

\* mutant of refreshPass: the pass sweeps the expired entries out of the Map
refreshPassSweeping(c, t) ==
    LET i == FirstValid(c, t)
        swept == SelectSeq(c, LAMBDA e : ~isExpired(e, t))
    IN  IF i = 0
        THEN [outcome |-> "completed", tried |-> {}, cache |-> swept]
        ELSE [outcome |-> "rejected", tried |-> {c[i].key}, cache |-> swept]

\* One run of the setInterval callback. Expired entries are skipped; at the
\* first valid one the callback logs the key and evaluates
\* this.fetchFunction(key). The class has no fetchFunction member, so the
\* call throws a TypeError before anything is awaited and the async callback
\* ends rejected: no entry after that one is inspected and no set happens.
refreshPass(c, t) ==
    LET i == FirstValid(c, t) IN
    IF i = 0
    THEN [outcome |-> "completed", tried |-> {}, cache |-> c]
    ELSE [outcome |-> "rejected", tried |-> {c[i].key}, cache |-> c]

(* ---------------------------------------------------------------------- *)
(* History records                                                         *)
(* ---------------------------------------------------------------------- *)

NeverWritten == [written |-> FALSE, data |-> Null, time |-> 0]

Written(d, t) == [written |-> TRUE, data |-> d, time |-> t]

\* op: the step; key: its key; value: what it returned (or stored, for set);
\* prev: the payload the key held just before a load stored its result;
\* loader: fetches started;
\* held, valid, tried, outcome: the refresh pass (keys in the Map when it
\* ran, those of them not expired, those it tried to refresh, how it ended)
Event(op, k, v) ==
    [op |-> op, key |-> k, value |-> v, prev |-> Null, loader |-> 0,
     held |-> {}, valid |-> {}, tried |-> {}, outcome |-> "none"]

\* payload held for k, Null when the Map has no entry for k
Held(c, k) == IF MapHas(c, k) THEN MapGet(c, k).data ELSE Null

Pending(kind, k) == [kind |-> kind, key |-> k]

\* no query has been looked at
NoQueries == [a |-> <<>>, b |-> <<>>, done |-> FALSE, ka |-> <<>>, kb |-> <<>>]

(* ---------------------------------------------------------------------- *)
(* Initial state: new TimeSeriesCache() at time 0                          *)
(* ---------------------------------------------------------------------- *)

Init ==
    /\ cache = <<>>
    /\ now = 0
    /\ advances = 0
    /\ inflight = EmptyBag
    /\ nextRefresh = refreshInterval
    /\ alive = TRUE
    /\ wrote = [k \in Keys |-> NeverWritten]
    /\ last = Event("init", "", Null)
    /\ derived = NoQueries

(* ---------------------------------------------------------------------- *)
(* Steps                                                                   *)
(* ---------------------------------------------------------------------- *)

\* time passes between callbacks
Advance ==
    /\ alive
    /\ advances < MaxAdvances
    /\ \E d \in Steps : now' = now + d
    /\ advances' = advances + 1
    /\ last' = Event("advance", "", Null)
    /\ UNCHANGED <<derived, cache, inflight, nextRefresh, alive, wrote>>

\* a caller invokes cache.set(k, d)
CallSet ==
    /\ alive
    /\ \E k \in Keys, d \in Data :
        /\ cache' = set(cache, k, d, now)
        /\ wrote' = [wrote EXCEPT ![k] = Written(d, now)]
        /\ last' = Event("set", k, d)
    /\ UNCHANGED <<derived, now, advances, inflight, nextRefresh, alive>>

\* a caller invokes cache.get(k)
CallGet ==
    /\ alive
    /\ \E k \in Keys :
        LET r == get(cache, k, now) IN
        /\ cache' = r.cache
        /\ last' = Event("get", k, r.value)
    /\ UNCHANGED <<derived, now, advances, inflight, nextRefresh, alive, wrote>>

\* fetchData(k, fetchFunction) up to its return on a hit
FetchDataHit ==
    /\ alive
    /\ \E k \in Keys :
        LET r == fetchDataCall(cache, k, now) IN
        /\ r.done
        /\ cache' = r.cache
        /\ last' = Event("fetchDataHit", k, r.value)
    /\ UNCHANGED <<derived, now, advances, inflight, nextRefresh, alive, wrote>>

\* fetchData(k, fetchFunction) up to its await: get, then fetchFunction() is called
FetchDataMiss ==
    /\ alive
    /\ BagCardinality(inflight) < Cardinality(Callers)
    /\ \E k \in Keys :
        LET r == fetchDataCall(cache, k, now) IN
        /\ ~r.done
        /\ cache' = r.cache
        /\ inflight' = inflight (+) SetToBag({Pending("fetchData", k)})
        /\ last' = [Event("fetchDataMiss", k, r.value) EXCEPT !.loader = 1]
    /\ UNCHANGED <<derived, now, advances, nextRefresh, alive, wrote>>

\* the awaited fetchFunction() resolved with d: set, then return d
FetchDataLoaded ==
    /\ alive
    /\ \E k \in Keys, d \in Data :
        /\ BagIn(Pending("fetchData", k), inflight)
        /\ inflight' = inflight (-) SetToBag({Pending("fetchData", k)})
        /\ LET r == fetchDataResume(cache, k, d, now) IN
            /\ cache' = r.cache
            /\ last' = [Event("fetchDataLoaded", k, r.value) EXCEPT
                            !.prev = Held(cache, k)]
        /\ wrote' = [wrote EXCEPT ![k] = Written(d, now)]
    /\ UNCHANGED <<derived, now, advances, nextRefresh, alive>>

\* mutant of FetchDataFailed: the failure is cached as the key's entry
FetchDataFailedStoring ==
    /\ alive
    /\ \E k \in Keys :
        /\ BagIn(Pending("fetchData", k), inflight)
        /\ inflight' = inflight (-) SetToBag({Pending("fetchData", k)})
        /\ cache' = set(cache, k, "", now)
        /\ last' = Event("fetchDataFailed", k, "error")
    /\ UNCHANGED <<derived, now, advances, nextRefresh, alive, wrote>>

\* the awaited fetchFunction() rejected: fetchData rethrows to its caller
FetchDataFailed ==
    /\ alive
    /\ \E k \in Keys :
        /\ BagIn(Pending("fetchData", k), inflight)
        /\ inflight' = inflight (-) SetToBag({Pending("fetchData", k)})
        /\ LET r == fetchDataResume(cache, k, Rejected, now) IN
            /\ cache' = r.cache
            /\ last' = Event("fetchDataFailed", k, r.value)
    /\ UNCHANGED <<derived, now, advances, nextRefresh, alive, wrote>>

\* mutant of HandlerRejected: the cache is read before the parameters are
\* tested
HandlerRejectedAfterGet ==
    /\ alive
    /\ RejectedRequests # {}
    /\ \E k \in Keys : cache' = get(cache, k, now).cache
    /\ last' = Event("handlerRejected", "", "400")
    /\ UNCHANGED <<derived, now, advances, inflight, nextRefresh, alive, wrote>>

\* GET /timeseries with a parameter absent or empty: 400, before any use of
\* the cache
HandlerRejected ==
    /\ alive
    /\ RejectedRequests # {}
    /\ last' = Event("handlerRejected", "", "400")
    /\ UNCHANGED <<derived, cache, now, advances, inflight, nextRefresh, alive, wrote>>

\* GET /timeseries with all four parameters (k is the key derived from
\* them), answered from the cache
HandlerHit ==
    /\ alive
    /\ \E k \in Keys :
        LET r == handlerCall(cache, k, now) IN
        /\ r.done
        /\ cache' = r.cache
        /\ last' = Event("handlerHit", k, r.body.data)
    /\ UNCHANGED <<derived, now, advances, inflight, nextRefresh, alive, wrote>>

\* GET /timeseries with all four parameters, up to await fetchDataFromAPI(...)
HandlerMiss ==
    /\ alive
    /\ BagCardinality(inflight) < Cardinality(Callers)
    /\ \E k \in Keys :
        LET r == handlerCall(cache, k, now) IN
        /\ ~r.done
        /\ cache' = r.cache
        /\ inflight' = inflight (+) SetToBag({Pending("handler", k)})
        /\ last' = [Event("handlerMiss", k, r.body.data) EXCEPT !.loader = 1]
    /\ UNCHANGED <<derived, now, advances, nextRefresh, alive, wrote>>

\* fetchDataFromAPI resolved with d: cache.set, then res.json
HandlerLoaded ==
    /\ alive
    /\ \E k \in Keys, d \in ApiData :
        /\ BagIn(Pending("handler", k), inflight)
        /\ inflight' = inflight (-) SetToBag({Pending("handler", k)})
        /\ LET r == handlerResume(cache, k, d, now) IN
            /\ cache' = r.cache
            /\ last' = [Event("handlerLoaded", k, r.body.data) EXCEPT
                            !.prev = Held(cache, k)]
        /\ wrote' = [wrote EXCEPT ![k] = Written(d, now)]
    /\ UNCHANGED <<derived, now, advances, nextRefresh, alive>>

\* mutant of HandlerFailed: the failure is answered with whatever the Map
\* holds for the key
HandlerFailedServingHeld ==
    /\ alive
    /\ \E k \in Keys :
        /\ BagIn(Pending("handler", k), inflight)
        /\ inflight' = inflight (-) SetToBag({Pending("handler", k)})
        /\ last' = Event("handlerFailed", k, Held(cache, k))
    /\ UNCHANGED <<derived, cache, now, advances, nextRefresh, alive, wrote>>

\* fetchDataFromAPI rejected: the catch block answers 500
HandlerFailed ==
    /\ alive
    /\ \E k \in Keys :
        /\ BagIn(Pending("handler", k), inflight)
        /\ inflight' = inflight (-) SetToBag({Pending("handler", k)})
        /\ LET r == handlerResume(cache, k, Rejected, now) IN
            /\ cache' = r.cache
            /\ last' = Event("handlerFailed", k, r.body.error)
    /\ UNCHANGED <<derived, now, advances, nextRefresh, alive, wrote>>

\* what a run of the timer callback records
RefreshEvent(r) ==
    [Event("refresh", "", Null) EXCEPT
        !.held = {cache[i].key : i \in 1..Len(cache)},
        !.valid = ValidKeys(cache, now), !.tried = r.tried, !.outcome = r.outcome]

\* the timer callback runs and finds nothing valid: its promise resolves
RefreshCompleted ==
    /\ alive
    /\ now >= nextRefresh
    /\ LET r == refreshPass(cache, now) IN
        /\ r.outcome = "completed"
        /\ cache' = r.cache
        /\ last' = RefreshEvent(r)
    /\ nextRefresh' = now + refreshInterval
    /\ UNCHANGED <<derived, now, advances, inflight, alive, wrote>>

\* the timer callback's promise rejects with nobody handling it, on a runtime
\* that only warns about unhandled rejections: the interval stays armed
RefreshRejectedWarn ==
    /\ alive
    /\ now >= nextRefresh
    /\ LET r == refreshPass(cache, now) IN
        /\ r.outcome = "rejected"
        /\ cache' = r.cache
        /\ last' = RefreshEvent(r)
    /\ nextRefresh' = now + refreshInterval
    /\ UNCHANGED <<derived, now, advances, inflight, alive, wrote>>

\* the same rejection on a runtime that turns an unhandled rejection into an
\* uncaught exception: the process exits
RefreshRejectedExit ==
    /\ alive
    /\ now >= nextRefresh
    /\ LET r == refreshPass(cache, now) IN
        /\ r.outcome = "rejected"
        /\ cache' = r.cache
        /\ last' = RefreshEvent(r)
    /\ alive' = FALSE
    /\ UNCHANGED <<derived, now, advances, inflight, nextRefresh, wrote>>

Next ==
    \/ Advance
    \/ CallSet
    \/ CallGet
    \/ FetchDataHit
    \/ FetchDataMiss
    \/ FetchDataLoaded
    \/ FetchDataFailed
    \/ HandlerRejected
    \/ HandlerHit
    \/ HandlerMiss
    \/ HandlerLoaded
    \/ HandlerFailed
    \/ RefreshCompleted
    \/ RefreshRejectedWarn
    \/ RefreshRejectedExit

Spec == Init /\ [][Next]_vars

(* ---------------------------------------------------------------------- *)
(* Key derivation on its own: two queries, and the keys derived for them   *)
(* ---------------------------------------------------------------------- *)

InitKey ==
    /\ cache = <<>>
    /\ now = 0
    /\ advances = 0
    /\ inflight = EmptyBag
    /\ nextRefresh = refreshInterval
    /\ alive = TRUE
    /\ wrote = [k \in Keys |-> NeverWritten]
    /\ last = Event("init", "", Null)
    /\ \E a \in Queries, b \in Queries :
        derived = [NoQueries EXCEPT !.a = a, !.b = b]

\* the handler derives the cache key of each of the two queries
DeriveKeys ==
    /\ ~derived.done
    /\ derived' = [derived EXCEPT
            !.done = TRUE, !.ka = cacheKey(derived.a), !.kb = cacheKey(derived.b)]
    /\ UNCHANGED <<cache, now, advances, inflight, nextRefresh, alive, wrote, last>>

NextKey == DeriveKeys

SpecKey == InitKey /\ [][NextKey]_vars

(* ---------------------------------------------------------------------- *)
(* Type invariant                                                          *)
(* ---------------------------------------------------------------------- *)

TypeOK ==
    /\ \A i \in 1..Len(cache) : cache[i].key \in Keys /\ cache[i].data \in Data
    /\ \A i, j \in 1..Len(cache) : cache[i].key = cache[j].key => i = j
    /\ now \in Nat
    /\ advances \in 0..MaxAdvances
    /\ BagCardinality(inflight) <= Cardinality(Callers)
    /\ alive \in BOOLEAN

(* ---------------------------------------------------------------------- *)
(* Vocabulary of the properties                                            *)
(* ---------------------------------------------------------------------- *)

\* steps that call get, with the value get returned in last.value
GetOps == {"get", "fetchDataHit", "fetchDataMiss", "handlerHit", "handlerMiss"}

\* steps that complete a set, with the payload stored in last.value
SetOps == {"set", "fetchDataLoaded", "handlerLoaded"}

\* steps in which an awaited foreground fetch is found to have failed
FailedOps == {"fetchDataFailed", "handlerFailed"}

\* a set for k has completed and is no older than the expiration age
Fresh(k) == wrote[k].written /\ now - wrote[k].time <= expirationDuration

\* foreground fetches pending for key k
LoadsInFlight(k) ==
    CopiesIn(Pending("fetchData", k), inflight)
        + CopiesIn(Pending("handler", k), inflight)

(* ---------------------------------------------------------------------- *)
(* C1                                                                      *)
(* ---------------------------------------------------------------------- *)

\* C1: whenever get is called (directly, by fetchData or by the request
\* handler), it returns a payload exactly when a set for that key completed
\* no more than expirationDuration ago, and the payload lies in an entry
\* stamped with the time of that set; otherwise it returns null. An expired
\* payload is never returned.
C1_GetOnlyFresh ==
    last.op \in GetOps =>
        /\ last.value # Null <=> Fresh(last.key)
        /\ last.value # Null =>
            /\ MapHas(cache, last.key)
            /\ MapGet(cache, last.key).timestamp = wrote[last.key].time
            /\ now - MapGet(cache, last.key).timestamp <= expirationDuration

\* C1 witness: a get found an entry older than expirationDuration and
\* returned null
C1_Witness ==
    /\ last.op = "get"
    /\ last.value = Null
    /\ wrote[last.key].written
    /\ now - wrote[last.key].time > expirationDuration

(* ---------------------------------------------------------------------- *)
(* C2                                                                      *)
(* ---------------------------------------------------------------------- *)

\* C2 as stated: fetchData called while the key holds a valid entry returns
\* the cached payload without invoking the loader; on a miss it invokes the
\* loader once, and when the loader resolves the result is stored and
\* returned.
C2_HitSkipsLoader ==
    /\ last.op \in {"fetchDataHit", "fetchDataMiss"} /\ Fresh(last.key) =>
        /\ last.loader = 0
        /\ last.value = wrote[last.key].data
    /\ last.op \in {"fetchDataHit", "fetchDataMiss"} /\ ~Fresh(last.key) =>
        last.loader = 1
    /\ last.op = "fetchDataLoaded" => Held(cache, last.key) = last.value

(* ---------------------------------------------------------------------- *)
(* C3                                                                      *)
(* ---------------------------------------------------------------------- *)

\* C3 as stated: after a foreground fetch for k has failed, the cache holds
\* no entry for k. An entry with a falsy payload, which the hit test of
\* fetchData and of the handler does not see as a hit, is not counted here,
\* so that what refutes the statement is a load that began on a real miss.
C3_NoEntryAfterFailure ==
    last.op \in FailedOps => ~Truthy(Held(cache, last.key))

\* C3 amended: the step in which a foreground fetch fails reports the
\* failure to the caller and leaves the whole Map as it was (no set, nothing
\* stored for the failure, every key untouched).
C3_FailureLeavesMap ==
    [][last'.op \in FailedOps => last'.value = "error" /\ cache' = cache]_vars

\* C3 witness: a fetchData load for a key has failed, the key has no entry
\* and the other key's entry is still there
C3_Witness ==
    /\ last.op = "fetchDataFailed"
    /\ last.value = "error"
    /\ ~MapHas(cache, last.key)
    /\ \E k \in Keys \ {last.key} : MapHas(cache, k)

(* ---------------------------------------------------------------------- *)
(* C4                                                                      *)
(* ---------------------------------------------------------------------- *)

\* C4 as stated: at no time are two foreground loads for the same key in
\* flight.
C4_SingleFlight == \A k \in Keys : LoadsInFlight(k) <= 1

(* ---------------------------------------------------------------------- *)
(* C5                                                                      *)
(* ---------------------------------------------------------------------- *)

\* C5 as stated: after a refresh pass every key that was valid when the pass
\* inspected it has been overwritten by a set of that pass, so its entry is
\* stamped with the time of the pass.
C5_PassRestampsValid ==
    last.op = "refresh" =>
        \A k \in last.valid :
            /\ MapHas(cache, k)
            /\ MapGet(cache, k).timestamp = now
            /\ wrote[k].time = now

(* ---------------------------------------------------------------------- *)
(* C6                                                                      *)
(* ---------------------------------------------------------------------- *)

C7_PassTriesEveryValid ==
    last.op = "refresh" => last.tried = last.valid

(* ---------------------------------------------------------------------- *)
(* C8                                                                      *)
(* ---------------------------------------------------------------------- *)

\* C8 as stated: no run of the timer callback ends in a rejection that
\* escapes it, and the process keeps running its timer.
C8_FailureContained ==
    /\ last.op = "refresh" => last.outcome # "rejected"
    /\ alive

(* ---------------------------------------------------------------------- *)
(* C9                                                                      *)
(* ---------------------------------------------------------------------- *)

\* C9: in every state and for every key, get returns the data of the last
\* completed set for that key if that set is no older than
\* expirationDuration, and null otherwise; right after a set completes (from
\* a caller, a fetchData load or a handler load), get returns what it stored.
C9_LastSetWins ==
    /\ \A k \in Keys :
        get(cache, k, now).value = IF Fresh(k) THEN wrote[k].data ELSE Null
    /\ last.op \in SetOps => get(cache, last.key, now).value = last.value

\* C9 witness: a fetchData load completed over a truthy payload different
\* from its own, which can only have been stored while the load was in
\* flight, and get returns the later one
C9_Witness ==
    /\ last.op = "fetchDataLoaded"
    /\ Truthy(last.prev)
    /\ last.prev # last.value
    /\ get(cache, last.key, now).value = last.value

(* ---------------------------------------------------------------------- *)
(* C10                                                                     *)
(* ---------------------------------------------------------------------- *)

\* C10: a get for a key that was set at time T returns the data and keeps
\* the entry at every time t with t - T <= expirationDuration, the boundary
\* included, and returns null and leaves no entry for the key when
\* t - T > expirationDuration.
C10_InclusiveBoundary ==
    last.op \in GetOps /\ wrote[last.key].written =>
        IF now - wrote[last.key].time <= expirationDuration
        THEN /\ last.value = wrote[last.key].data
             /\ MapHas(cache, last.key)
             /\ MapGet(cache, last.key).timestamp = wrote[last.key].time
        ELSE /\ last.value = Null
             /\ ~MapHas(cache, last.key)

\* C10 witness: a get at exactly the boundary age returned the data and kept
\* the entry
C10_Witness ==
    /\ last.op = "get"
    /\ wrote[last.key].written
    /\ now - wrote[last.key].time = expirationDuration
    /\ last.value = wrote[last.key].data
    /\ MapHas(cache, last.key)

(* ---------------------------------------------------------------------- *)
(* C11                                                                     *)
(* ---------------------------------------------------------------------- *)

\* C11 as stated: the keys derived for two queries are equal exactly when
\* the queries are equal in all four parameters.
C11_KeyInjective ==
    derived.done => (derived.ka = derived.kb <=> derived.a = derived.b)

(* ---------------------------------------------------------------------- *)
(* C12                                                                     *)
(* ---------------------------------------------------------------------- *)

\* C12: a refresh pass tries no key whose entry is expired when the pass
\* runs, and every such entry is still in the Map after the pass, with the
\* data and the timestamp of the set that wrote it.
C12_ExpiredNotRefreshed ==
    last.op = "refresh" =>
        \A k \in last.held \ last.valid :
            /\ k \notin last.tried
            /\ MapHas(cache, k)
            /\ MapGet(cache, k).data = wrote[k].data
            /\ MapGet(cache, k).timestamp = wrote[k].time
            /\ now - wrote[k].time > expirationDuration

\* C12 witness: a pass ran over a Map holding an expired entry, which is
\* still there
C12_Witness ==
    /\ last.op = "refresh"
    /\ \E k \in last.held \ last.valid :
        MapHas(cache, k) /\ isExpired(MapGet(cache, k), now)

(* ---------------------------------------------------------------------- *)
(* C14                                                                     *)
(* ---------------------------------------------------------------------- *)

\* C14: the step that answers a request lacking a parameter answers 400 and
\* leaves the Map as it was (no eviction, no set), starts no fetch and
\* completes no set.
C14_RejectedBeforeCache ==
    [][last'.op = "handlerRejected" =>
        /\ last'.value = "400"
        /\ cache' = cache
        /\ inflight' = inflight
        /\ wrote' = wrote]_vars

\* C14 witness: a request was rejected while the Map held an expired entry,
\* which a get would have evicted
C14_Witness ==
    /\ last.op = "handlerRejected"
    /\ last.value = "400"
    /\ \E k \in Keys : MapHas(cache, k) /\ isExpired(MapGet(cache, k), now)

(* ---------------------------------------------------------------------- *)
(* C15                                                                     *)
(* ---------------------------------------------------------------------- *)

\* C15: the step in which the handler finds its fetch failed answers with
\* the failure response, which is no payload and not null, stores nothing
\* (the Map and the record of completed sets are as before), and leaves the
\* process running with the handler able to take the next request.
C15_HandlerFailureIs500 ==
    [][last'.op = "handlerFailed" =>
        /\ last'.value = "error"
        /\ last'.value \notin Data \cup {Null}
        /\ cache' = cache
        /\ wrote' = wrote
        /\ alive'
        /\ BagCardinality(inflight') < Cardinality(Callers)]_vars

\* C15 witness: a handler fetch failed, the failure was answered, the key
\* has no entry and the process is running
C15_Witness ==
    /\ last.op = "handlerFailed"
    /\ last.value = "error"
    /\ ~MapHas(cache, last.key)
    /\ alive

(* ---------------------------------------------------------------------- *)
(* C16                                                                     *)
(* ---------------------------------------------------------------------- *)

\* C16: in every reachable state and for every key, a get followed by
\* further gets with no set in between returns the same thing each time
\* while the clock stands, and leaves the Map as the first get left it; a get
\* after the clock has moved returns the same payload or null; once a get has
\* returned null it has left no entry for the key and every later get
\* returns null.
C16_GetIdempotent ==
    \A k \in Keys :
        LET first == get(cache, k, now)
            again == get(first.cache, k, now)
        IN  /\ again.value = first.value
            /\ again.cache = first.cache
            /\ first.value = Null => ~MapHas(first.cache, k)
            /\ \A d \in Steps :
                LET later == get(first.cache, k, now + d)
                IN  /\ later.value \in {first.value, Null}
                    /\ first.value = Null => later.value = Null
                    /\ get(later.cache, k, now + d).value = later.value

\* C16 witness: some time after the set, a get returned the payload and a
\* further get would return it again
C16_Witness ==
    /\ last.op = "get"
    /\ last.value # Null
    /\ wrote[last.key].time < now
    /\ get(cache, last.key, now).value = last.value

\* C17: a step that reads key k through get (a call of get, or the get inside
\* fetchData or the handler) changes the Map in one way at most: when k has
\* an expired entry, that entry is removed. The entry of every other key, a
\* valid entry for k with its timestamp, and a Map without k are left as they
\* were, in the same order; the record of completed sets is untouched; and a
\* call of get itself starts no fetch.
C17_GetFrame ==
    [][last'.op \in GetOps =>
        LET k == last'.key IN
        /\ IF MapHas(cache, k) /\ isExpired(MapGet(cache, k), now)
           THEN cache' = MapDelete(cache, k)
           ELSE cache' = cache
        /\ \A j \in Keys \ {k} :
            /\ MapHas(cache', j) = MapHas(cache, j)
            /\ MapHas(cache, j) => MapGet(cache', j) = MapGet(cache, j)
        /\ wrote' = wrote
        /\ now' = now
        /\ last'.op = "get" => inflight' = inflight /\ last'.loader = 0]_vars

\* C17 witness: get has just returned the payload of a valid entry that is
\* older than the clock, its timestamp is still that of the set that stored
\* it, and the other key has an entry too.
C17_Witness ==
    /\ last.op = "get" /\ last.value # Null
    /\ MapHas(cache, last.key)
    /\ MapGet(cache, last.key).timestamp = wrote[last.key].time
    /\ MapGet(cache, last.key).timestamp < now
    /\ \E j \in Keys \ {last.key} : MapHas(cache, j)

\* C18: the Map starts empty, and a key leaves the Map only in a step that
\* reads that key through get (a call of get, or the get inside fetchData or
\* the handler) and finds its entry expired. No set, resolved or rejected
\* load, refresh pass or clock advance removes a key.
C18_LazyEvictionOnly ==
    /\ cache = <<>>
    /\ [][\A k \in Keys :
            MapHas(cache, k) /\ ~MapHas(cache', k) =>
                /\ last'.op \in GetOps
                /\ last'.key = k
                /\ now' = now
                /\ isExpired(MapGet(cache, k), now)]_vars

\* C18 witness: a read has just removed the expired entry of its key, and the
\* entry of the other key, just as old and expired, is still in the Map.
C18_Witness ==
    /\ last.op \in GetOps /\ last.value = Null
    /\ wrote[last.key].written /\ ~Fresh(last.key)
    /\ ~MapHas(cache, last.key)
    /\ \E j \in Keys \ {last.key} :
        /\ MapHas(cache, j)
        /\ isExpired(MapGet(cache, j), now)
        /\ MapGet(cache, j).timestamp = wrote[last.key].time

\* C19: from any reachable state, for every key and every way the awaited
\* fetch can settle, the handler and fetchData do the same thing: both answer
\* at once or both start a fetch, with the same payload when they answer and
\* the same Map left behind; and once the fetch has settled both leave the
\* same Map, the handler answering 200 with the payload fetchData returns, or
\* 500 exactly when fetchData throws.
C19_HandlerIsFetchData ==
    \A k \in Keys :
        LET f == fetchDataCall(cache, k, now)
            h == handlerCall(cache, k, now)
        IN  /\ h.done = f.done
            /\ h.cache = f.cache
            /\ h.done => h.status = "200" /\ h.body.data = f.value
            /\ \A o \in Outcomes :
                LET fr == fetchDataResume(cache, k, o, now)
                    hr == handlerResume(cache, k, o, now)
                IN  /\ hr.cache = fr.cache
                    /\ fr.threw <=> hr.status = "500"
                    /\ ~fr.threw => hr.status = "200" /\ hr.body.data = fr.value

\* C19 witness: the handler has just started a fetch for a key whose valid
\* entry holds a falsy payload, a fetchData for that key is awaiting its own
\* fetch, and fetchData called now would start one as well.
C19_Witness ==
    /\ last.op = "handlerMiss" /\ last.value = ""
    /\ Fresh(last.key)
    /\ BagIn(Pending("fetchData", last.key), inflight)
    /\ ~fetchDataCall(cache, last.key, now).done

====
